---- MODULE Spec2Model ----
(***************************************************************************)
(* A model of the Rosette API python binding (rosette/api.py): the         *)
(* parameter containers, the retrying transport (API._make_request and     *)
(* its GET/POST wrappers) and EndpointCaller.call / info / ping.           *)
(*                                                                         *)
(* Two specifications share the module:                                    *)
(*   SpecParams  the parameter containers driven through their public      *)
(*               operations (construction, [], []=, serialize, loads);     *)
(*   Spec        one client (API object) issuing calls against a transport *)
(*               that answers each attempt with any status / body, or with *)
(*               a low-level connection failure.                           *)
(***************************************************************************)
EXTENDS Integers, Sequences, FiniteSets, TLC

(* ------------------------------ bounds --------------------------------- *)

\* Largest value of the retries argument the client is constructed with.
MaxRetries == 2

\* Parameter values are 1..MaxVal; None is the unset sentinel.
MaxVal == 1

(* ------------------------------ values --------------------------------- *)

\* python's None, as a parameter value
None == 0

Vals == 1..MaxVal

\* A body of the HTTP exchange; n = 0 stands for "no body".
NoBody == [n |-> 0, kind |-> "none"]

\* Strings built by the program (messages, reprs, urls) are records of one
\* shape: fmt the literal or the format, arg / body / i its arguments.
Text(s) == [fmt |-> s, arg |-> "", body |-> NoBody, i |-> 0]

\* repr(key)
Repr(key) == [fmt |-> "repr({0})", arg |-> key, body |-> NoBody, i |-> 0]

NoneText == Text("None")

\* Codes of RosetteException: a symbolic string or an HTTP status number.
SymCode(s) == [sym |-> s, num |-> 0]

NumCode(n) == [sym |-> "", num |-> n]

\* No exception raised.
NoExc ==
    [type |-> "", status |-> SymCode(""), message |-> NoneText,
     response_message |-> NoneText]

RosetteException(status, message, response_message) ==
    [type |-> "RosetteException", status |-> status, message |-> message,
     response_message |-> response_message]

\* An exception of python that is not a RosetteException (ValueError, KeyError...)
PyError(type) ==
    [type |-> type, status |-> SymCode(""), message |-> NoneText,
     response_message |-> NoneText]

(* ------------------------ parameter containers ------------------------- *)

Classes ==
    {"DocumentParameters", "RelationshipsParameters",
     "NameTranslationParameters", "NameSimilarityParameters"}

DocumentClasses == {"DocumentParameters", "RelationshipsParameters"}

\* The repertoire each class hands to _DocumentParamSetBase.__init__.
Repertoire(cls) ==
    CASE cls = "DocumentParameters" ->
            {"content", "contentUri", "language", "genre"}
      [] cls = "RelationshipsParameters" ->
            {"content", "contentUri", "language", "options", "genre"}
      [] cls = "NameTranslationParameters" ->
            {"name", "targetLanguage", "entityType", "sourceLanguageOfOrigin",
             "sourceLanguageOfUse", "sourceScript", "targetScript",
             "targetScheme", "genre"}
      [] cls = "NameSimilarityParameters" -> {"name1", "name2"}

\* A key no class recognizes.
UnknownKeys == {"bogus"}

\* Files of the file system: a path, its base name and its bytes.
Files == {[dir |-> "data", base |-> "doc.txt", bytes |-> 1]}

NoFile == [dir |-> "", base |-> "", bytes |-> None]

Basename(path) == path.base

\* _DocumentParamSetBase.__init__ and the subclasses' __init__
NewContainer(cls) ==
    [cls |-> cls,
     params |-> [k \in Repertoire(cls) |-> None],
     file_name |-> NoFile,
     useMultipart |-> FALSE]

\* Results of the container operations: the exception (NoExc when none), the
\* container afterwards, the value read and the mapping serialized.
EmptyMapping == [k \in {} |-> None]

Result(exc, c, value, mapping) ==
    [exc |-> exc, container |-> c, value |-> value, mapping |-> mapping]

BadKey(key) ==
    RosetteException(SymCode("badKey"), Text("Unknown Rosette parameter key"),
                     Repr(key))

\* __setitem__ without its check of the key (a plain dictionary store)
SetItemMutNoCheck(c, key, val) ==
    Result(NoExc,
           [c EXCEPT !.params =
               [k \in DOMAIN c.params \cup {key} |->
                   IF k = key THEN val ELSE c.params[k]]],
           None, EmptyMapping)

\* _DocumentParamSetBase.__setitem__
SetItem(c, key, val) ==
    IF key \notin DOMAIN c.params
    THEN Result(BadKey(key), c, None, EmptyMapping)
    ELSE Result(NoExc, [c EXCEPT !.params[key] = val], None, EmptyMapping)

\* _DocumentParamSetBase.__getitem__
GetItem(c, key) ==
    IF key \notin DOMAIN c.params
    THEN Result(BadKey(key), c, None, EmptyMapping)
    ELSE Result(NoExc, c, c.params[key], EmptyMapping)

\* The first key of a required tuple that is unset, "" when none.
FirstMissing(c, required) ==
    IF \E j \in 1..Len(required) : c.params[required[j]] = None
    THEN required[CHOOSE j \in 1..Len(required) :
                      /\ c.params[required[j]] = None
                      /\ \A h \in 1..(j - 1) : c.params[required[h]] # None]
    ELSE ""

\* validate without the branch for a container that has neither field
ValidateDocumentMutNeitherOk(c) ==
    IF c.params["content"] # None /\ c.params["contentUri"] # None
    THEN RosetteException(SymCode("badArgument"),
                          Text("Cannot supply both Content and ContentUri"),
                          Text("bad arguments"))
    ELSE NoExc

\* DocumentParameters.validate (inherited by RelationshipsParameters)
ValidateDocument(c) ==
    IF GetItem(c, "content").value = None
    THEN IF GetItem(c, "contentUri").value = None
         THEN RosetteException(SymCode("badArgument"),
                               Text("Must supply one of Content or ContentUri"),
                               Text("bad arguments"))
         ELSE NoExc
    ELSE IF GetItem(c, "contentUri").value # None
         THEN RosetteException(SymCode("badArgument"),
                               Text("Cannot supply both Content and ContentUri"),
                               Text("bad arguments"))
         ELSE NoExc

\* validate looking at the first required key only
ValidateNameTranslationMutFirstOnly(c) ==
    IF c.params["name"] = None
    THEN RosetteException(SymCode("missingParameter"),
                          Text("Required Name Translation parameter not supplied"),
                          Repr("name"))
    ELSE NoExc

\* NameTranslationParameters.validate
ValidateNameTranslation(c) ==
    LET n == FirstMissing(c, <<"name", "targetLanguage">>) IN
    IF n # ""
    THEN RosetteException(SymCode("missingParameter"),
                          Text("Required Name Translation parameter not supplied"),
                          Repr(n))
    ELSE NoExc

\* NameSimilarityParameters.validate
ValidateNameSimilarity(c) ==
    LET n == FirstMissing(c, <<"name1", "name2">>) IN
    IF n # ""
    THEN RosetteException(SymCode("missingParameter"),
                          Text("Required Name Similarity parameter not supplied"),
                          Repr(n))
    ELSE NoExc

\* validate(), dispatched on the class of the container
Validate(c) ==
    CASE c.cls \in DocumentClasses -> ValidateDocument(c)
      [] c.cls = "NameTranslationParameters" -> ValidateNameTranslation(c)
      [] c.cls = "NameSimilarityParameters" -> ValidateNameSimilarity(c)

\* _DocumentParamSetBase.serialize (DocumentParameters.serialize validates
\* once more and then calls it)
Serialize(c) ==
    LET exc == Validate(c) IN
    IF exc # NoExc
    THEN Result(exc, c, None, EmptyMapping)
    ELSE Result(NoExc, c, None,
                [k \in {q \in DOMAIN c.params : c.params[q] # None} |->
                    c.params[k]])

\* DocumentParameters.load_document_string
LoadDocumentString(c, s) == SetItem(c, "content", s)

\* DocumentParameters.load_document_file; a path that cannot be opened raises
\* IOError after the multipart flag and the file name have been set.
LoadDocumentFile(c, path, readable) ==
    LET marked == [c EXCEPT !.useMultipart = TRUE, !.file_name = path] IN
    IF readable
    THEN LoadDocumentString(marked, path.bytes)
    ELSE Result(PyError("IOError"), marked, None, EmptyMapping)

\* Where the "content" of a container came from: never set ("unset"), a key
\* assignment ("assigned"), load_document_string ("string") or
\* load_document_file ("file", with the path that was read).
Origin(how, path) == [how |-> how, path |-> path]

NoOrigin == Origin("unset", NoFile)

(* ----------------------------- the client ------------------------------ *)

VARIABLES
    container,        \* SpecParams: the parameter container in use
    p_last,           \* SpecParams: the last operation on it and what it gave
    content_origin,   \* SpecParams, history: where the container's current
                      \* "content" came from (the program keeps no such record)
    retries,          \* the retries argument API was constructed with
    user_key,         \* API.user_key
    num_retries,      \* API.num_retries
    reuse_connection, \* API.reuse_connection
    http_connection,  \* API.http_connection: "None", or the connection's state
    pc,               \* "idle", "request" (inside _make_request's loop, waiting
                      \* for the answer to attempt i), "multipart" (waiting
                      \* for the answer to session.send) or "done" (the
                      \* operation has returned or raised)
    call,             \* the operation in progress or last finished
    parameters,       \* EndpointCaller.call's parameters (after wrapping)
    useMultipart,     \* EndpointCaller.useMultipart
    frame,            \* _make_request's locals: i, code, message, rdata
    log,              \* connection / request / sleep events of this operation
    responses,        \* statuses received by this operation, in order
    sent,             \* requests handed to the network by this operation
    made,             \* how _make_request ended: returned (rdata, status) or raised
    outcome,          \* how the operation ended for its caller
    conn_before       \* http_connection when the operation began

pvars == <<container, p_last, content_origin>>

cvars ==
    <<retries, user_key, num_retries, reuse_connection, http_connection, pc,
      call, parameters, useMultipart, frame, log, responses, sent, made,
      outcome, conn_before>>

vars == <<pvars, cvars>>

\* python's None where a string is expected (user_key, suburl)
NoneStr == "<None>"

UserKeys == {NoneStr, "secret-key"}

\* API.__init__: retries below 1 become 1
ClampRetries(r) == IF r < 1 THEN 1 ELSE r

\* The sub-paths the facade binds EndpointCallers to (one document endpoint
\* stands for all of them) and the two name endpoints.
Suburls == {"entities", "name-translation", "name-similarity"}

\* service_url + path
Url(path) == [fmt |-> "{service_url}{0}", arg |-> path, body |-> NoBody, i |-> 0]

(* Bodies the transport answers with.  Attempt n of an operation is answered *)
(* with body [n, kind]; the kinds are                                        *)
(*   "mc" a JSON object with "message" and "code",  "m" with "message" only, *)
(*   "c" with "code" only,  "e" with neither,  "text" bytes that are no      *)
(*   JSON,  "gz" the gzip compression of an "e" object.                      *)
BodyKinds == {"mc", "m", "c", "e", "text", "gz"}

Statuses == {200, 404, 429, 500}

StartsWithGzipSignature(body) == body.kind = "gz"

\* gzip.GzipFile(...).read()
Gunzip(body) == [body EXCEPT !.kind = "e"]

IsJson(body) == body.kind \in {"mc", "m", "c", "e"}

HasMessage(body) == body.kind \in {"mc", "m"}

HasCode(body) == body.kind \in {"mc", "c"}

\* the_json['message'] and the_json['code'] of a parsed body
JsonMessage(body) == [fmt |-> "json[{0}]", arg |-> "message", body |-> body, i |-> 0]

JsonCodeText(body) == [fmt |-> "json[{0}]", arg |-> "code", body |-> body, i |-> 0]

JsonCode(body) == [sym |-> "json[code]", num |-> body.n]

\* "{0} ({1})".format(rdata, i)
Format429(body, i) == [fmt |-> "{0} ({1})", arg |-> "", body |-> body, i |-> i]

\* _my_loads: the parsed object with the response headers folded in
MyLoads(body) == [json |-> body, responseHeaders |-> TRUE]

NoValue == [json |-> NoBody, responseHeaders |-> FALSE]

(* ------------------------------ requests ------------------------------- *)

NoContainer ==
    [cls |-> "", params |-> EmptyMapping, file_name |-> NoFile,
     useMultipart |-> FALSE]

\* An argument of EndpointCaller.call: a plain string or a container
StrArg(text) == [isContainer |-> FALSE, text |-> text, container |-> NoContainer]

ContainerArg(c) == [isContainer |-> TRUE, text |-> None, container |-> c]

NoArg == StrArg(None)

\* Header dictionaries are functions from header names to values.
NoHeaders == [h \in {} |-> ""]

WithHeader(headers, name, value) ==
    [h \in DOMAIN headers \cup {name} |-> IF h = name THEN value ELSE headers[h]]

\* The body of a request: a JSON document, a multipart form or nothing.
JsonPayload(mapping) ==
    [kind |-> "json", fields |-> mapping, file |-> "", content |-> None]

MultipartPayload(mapping, file, content) ==
    [kind |-> "multipart", fields |-> mapping, file |-> file, content |-> content]

NoPayload == [kind |-> "none", fields |-> EmptyMapping, file |-> "", content |-> None]

Request(via, op, url, headers, payload) ==
    [via |-> via, op |-> op, url |-> url, headers |-> headers, payload |-> payload]

\* What the last operation on the container was and what it gave its caller.
LastOp(op, res) ==
    [op |-> op, exc |-> res.exc, value |-> res.value, mapping |-> res.mapping]

(* --------------------- API._connect / _make_request -------------------- *)

(* The state _make_request works on, as one record:                        *)
(*   i, code, message, rdata   its locals (i is the loop index),           *)
(*   request                   what every attempt sends,                   *)
(*   conn, log                 API.http_connection and the event log,      *)
(*   made, pc                  how it ended, and where control is.         *)
NoMade == [state |-> "none", rdata |-> NoBody, status |-> 0, exc |-> NoExc]

MadeReturned(rdata, status) ==
    [state |-> "returned", rdata |-> rdata, status |-> status, exc |-> NoExc]

MadeRaised(exc) == [state |-> "raised", rdata |-> NoBody, status |-> 0, exc |-> exc]

NoRequest == Request("", "", Text(""), NoHeaders, NoPayload)

NoFrame ==
    [i |-> 0, code |-> SymCode(""), message |-> NoneText, rdata |-> NoBody,
     request |-> NoRequest]

\* The loop bound off by one, either way
AttemptsMutOneLess(n) == n

AttemptsMutOneMore(n) == n + 2

\* range(self.num_retries + 1): the number of attempts
Attempts(n) == n + 1

\* API._connect
Connect(t) ==
    IF ~reuse_connection \/ t.conn = "None"
    THEN [t EXCEPT !.conn = "new", !.log = Append(@, "connect")]
    ELSE t

\* self.http_connection.close()
Close(t) == [t EXCEPT !.conn = "closed", !.log = Append(@, "close")]

\* time.sleep(self.connection_refresh_duration)
Sleep(t) == [t EXCEPT !.log = Append(@, "sleep")]

\* http_connection.request(...): the socket is connected when it is not yet
SendRequest(t) == [t EXCEPT !.conn = "open", !.log = Append(@, "request")]

\* _make_request up to its loop
BeginMakeRequest(conn, request) ==
    Connect([i |-> 0, code |-> SymCode("unknownError"), message |-> NoneText,
             rdata |-> NoBody, request |-> request, conn |-> conn,
             log |-> <<>>, made |-> NoMade, pc |-> "request"])

\* The loop is left without a return: close unless the connection is reused,
\* then raise what was recorded.
Exhausted(t) ==
    LET t1 == IF ~reuse_connection THEN Close(t) ELSE t IN
    [t1 EXCEPT !.made = MadeRaised(RosetteException(t.code, t.message,
                                                    t.request.url)),
               !.pc = "done"]

\* continue: the next iteration of the loop, if there is one
Continue(t) ==
    IF t.i + 1 < Attempts(num_retries)
    THEN [t EXCEPT !.i = @ + 1]
    ELSE Exhausted(t)

\* status == 200
On200(t, body) ==
    LET t1 == [t EXCEPT !.rdata = body]
        t2 == IF ~reuse_connection THEN Close(t1) ELSE t1
    IN  [t2 EXCEPT !.made = MadeReturned(t2.rdata, 200), !.pc = "done"]

\* status == 429
On429(t, body) ==
    Continue(Connect(Close(Sleep(
        [t EXCEPT !.rdata = body,
                  !.code = NumCode(429),
                  !.message = Format429(body, t.i)]))))

\* any other status: rdata is the bytes read, never None; a body that is no
\* JSON makes _my_loads raise, and the bare "except: raise" passes that on.
OnOtherStatus(t, status, body) ==
    LET t1 == [t EXCEPT !.rdata = body] IN
    IF ~IsJson(body)
    THEN [t1 EXCEPT !.made = MadeRaised(PyError("ValueError")), !.pc = "done"]
    ELSE LET message == IF HasMessage(body) THEN JsonMessage(body) ELSE t.message
             code == IF HasCode(body) THEN JsonCode(body) ELSE NumCode(status)
         IN  [t1 EXCEPT !.message = message,
                        !.code = code,
                        !.made = MadeRaised(RosetteException(code, message,
                                                             t.request.url)),
                        !.pc = "done"]

\* One pass of the loop body for an attempt that is answered
OnResponse(t, status, body) ==
    CASE status = 200 -> On200(SendRequest(t), body)
      [] status = 429 -> On429(SendRequest(t), body)
      [] OTHER -> OnOtherStatus(SendRequest(t), status, body)

\* A connection failure handled like a 429: wait, reconnect, try again
OnConnectionFailureMutRetries(t, kind) ==
    Continue(Connect(Close(Sleep(
        [t EXCEPT !.log = Append(@, "request")]))))

\* except (httplib.BadStatusLine, gaierror).  A gaierror is raised while
\* connecting, so the socket stays as it was; a BadStatusLine is raised after
\* the request went out on the connected socket.
OnConnectionFailure(t, kind) ==
    LET t1 == IF kind = "BadStatusLine"
              THEN SendRequest(t)
              ELSE [t EXCEPT !.log = Append(@, "request")]
    IN  [t1 EXCEPT
            !.made = MadeRaised(RosetteException(
                        SymCode("ConnectionError"),
                        Text("Unable to establish connection to the Rosette API server"),
                        t.request.url)),
            !.pc = "done"]

ConnectionFailures == {"BadStatusLine", "gaierror"}

(* --------------------- _get_http / _post_http -------------------------- *)

NoOutcome == [state |-> "none", exc |-> NoExc, value |-> NoValue, status |-> 0]

Returned(value) ==
    [state |-> "returned", exc |-> NoExc, value |-> value, status |-> 200]

Raised(exc) == [state |-> "raised", exc |-> exc, value |-> NoValue, status |-> 0]

\* _ReturnObject(_my_loads(rdata, response_headers), status), or the error
\* json.loads raises on bytes that are no JSON
ReturnObject(body, status) ==
    IF IsJson(body)
    THEN [state |-> "returned", exc |-> NoExc, value |-> MyLoads(body),
          status |-> status]
    ELSE Raised(PyError("ValueError"))

\* API._get_http after _make_request has returned
GetHttp(m) == ReturnObject(m.rdata, m.status)

\* API._post_http after _make_request has returned
PostHttp(m) ==
    ReturnObject(IF StartsWithGzipSignature(m.rdata) THEN Gunzip(m.rdata)
                 ELSE m.rdata,
                 m.status)

(* --------------------------- EndpointCaller ---------------------------- *)

\* complaint_url + " : failed to communicate with Rosette"
Complaint(ename, suburl) ==
    IF suburl = NoneStr
    THEN Text("Top level info : failed to communicate with Rosette")
    ELSE [fmt |-> "{ename} {0} : failed to communicate with Rosette",
          arg |-> suburl, body |-> [n |-> 0, kind |-> ename], i |-> 0]

\* EndpointCaller.__finish_result on a _ReturnObject r
FinishResult(r, ename, suburl) ==
    IF r.state # "returned"
    THEN r
    ELSE IF r.status = 200
    THEN Returned(r.value)
    ELSE LET body == r.value.json IN
         IF HasMessage(body)
         THEN Raised(RosetteException(NumCode(r.status),
                                      Complaint(ename, suburl),
                                      JsonMessage(body)))
         ELSE IF HasCode(body)
         THEN Raised(RosetteException(NumCode(r.status),
                                      Complaint(ename, suburl),
                                      JsonCodeText(body)))
         ELSE Raised(PyError("KeyError"))

\* The headers info() and ping() build
InfoHeaders ==
    LET h == WithHeader(WithHeader(WithHeader(NoHeaders,
                 "Accept", "application/json"),
                 "X-RosetteAPI-Binding", "python"),
                 "X-RosetteAPI-Binding-Version", "1.1")
    IN  IF user_key # NoneStr THEN WithHeader(h, "X-RosetteAPI-Key", user_key)
        ELSE h

\* call() that announces the binding but leaves the key out
CallHeadersMutNoKey ==
    IF user_key # NoneStr
    THEN WithHeader(WithHeader(NoHeaders,
             "X-RosetteAPI-Binding", "python"),
             "X-RosetteAPI-Binding-Version", "1.1")
    ELSE NoHeaders

\* The headers call() builds before it chooses between multipart and JSON
CallHeaders ==
    IF user_key # NoneStr
    THEN WithHeader(WithHeader(WithHeader(NoHeaders,
             "X-RosetteAPI-Key", user_key),
             "X-RosetteAPI-Binding", "python"),
             "X-RosetteAPI-Binding-Version", "1.1")
    ELSE NoHeaders

\* ... and the ones its JSON branch adds
JsonHeaders(h) ==
    WithHeader(WithHeader(WithHeader(h,
        "Accept", "application/json"),
        "Accept-Encoding", "gzip"),
        "Content-Type", "application/json")

\* _make_request's addition
UserAgent(h) == WithHeader(h, "User-Agent", "RosetteAPIPython/1.1")

(* ------------------------ Spec: the client at work --------------------- *)

\* The client is constructed with debug = False, so no X-RosetteAPI-Devel
\* header is modelled; the refresh duration only sets the length of a sleep.
RetriesArgs == (-1)..MaxRetries

\* The operation in progress: which one, the sub-path its EndpointCaller is
\* bound to, the argument as the caller gave it, and the way it talks to the
\* network ("retrying", "multipart" or "none").
Operation(op, suburl, arg, path) ==
    [op |-> op, suburl |-> suburl, arg |-> arg, path |-> path]

NoCall == Operation("", NoneStr, NoArg, "none")

\* API.__init__(user_key, retries = r, reuse_connection = reuse), before any
\* operation
Constructed(key, r, reuse) ==
    /\ retries = r
    /\ num_retries = ClampRetries(r)
    /\ user_key = key
    /\ reuse_connection = reuse
    /\ http_connection = "None"
    /\ pc = "idle"
    /\ call = NoCall
    /\ parameters = NoArg
    /\ useMultipart = FALSE
    /\ frame = NoFrame
    /\ log = <<>>
    /\ responses = <<>>
    /\ sent = <<>>
    /\ made = NoMade
    /\ outcome = NoOutcome
    /\ conn_before = "None"

ConfigUnchanged == UNCHANGED <<retries, user_key, num_retries, reuse_connection>>

\* The keys the containers handed to call() have set or unset; their other
\* keys are unset.
InputKeys(cls) ==
    CASE cls = "DocumentParameters" -> {"content", "contentUri", "language"}
      [] cls = "RelationshipsParameters" -> {"content", "contentUri"}
      [] cls = "NameTranslationParameters" -> {"name", "targetLanguage"}
      [] cls = "NameSimilarityParameters" -> {"name1", "name2"}

ContainersOf(cls) ==
    {[NewContainer(cls) EXCEPT
         !.params = [k \in Repertoire(cls) |-> IF k \in S THEN 1 ELSE None]] :
        S \in SUBSET InputKeys(cls)}

\* ... and the document containers a file was loaded into at some time
FileLoaded(c) ==
    {[c EXCEPT !.useMultipart = TRUE, !.file_name = f] : f \in Files}

\* The facade method an argument is handed to: document containers go to a
\* document endpoint, name containers to their endpoint, strings anywhere.
CallInputs ==
    ({"entities"} \X
        {ContainerArg(c) :
            c \in ContainersOf("DocumentParameters")
                  \cup ContainersOf("RelationshipsParameters")
                  \cup UNION {FileLoaded(d) :
                                 d \in ContainersOf("DocumentParameters")}})
    \cup ({"name-translation"} \X
            {ContainerArg(c) : c \in ContainersOf("NameTranslationParameters")})
    \cup ({"name-similarity"} \X
            {ContainerArg(c) : c \in ContainersOf("NameSimilarityParameters")})
    \cup (Suburls \X {StrArg(1)})

\* _make_request's state, read from and written to the variables
Current ==
    [i |-> frame.i, code |-> frame.code, message |-> frame.message,
     rdata |-> frame.rdata, request |-> frame.request,
     conn |-> http_connection, log |-> log, made |-> made, pc |-> pc]

\* What the caller of the operation gets once _make_request has ended:
\* _get_http or _post_http, then __finish_result.
Wrapped(m, op, suburl) ==
    CASE m.state = "none" -> NoOutcome
      [] m.state = "raised" -> Raised(m.exc)
      [] OTHER ->
            IF op = "call"
            THEN FinishResult(PostHttp(m), "operate", suburl)
            ELSE FinishResult(GetHttp(m), op, suburl)

Store(t, op, suburl) ==
    /\ frame' = [i |-> t.i, code |-> t.code, message |-> t.message,
                 rdata |-> t.rdata, request |-> t.request]
    /\ http_connection' = t.conn
    /\ log' = t.log
    /\ made' = t.made
    /\ pc' = t.pc
    /\ outcome' = Wrapped(t.made, op, suburl)

\* call() raises before anything is handed to the network
FailBeforeNetwork(suburl, arg, params, multipart, exc) ==
    /\ pc' = "done"
    /\ call' = Operation("call", suburl, arg, "none")
    /\ parameters' = params
    /\ useMultipart' = multipart
    /\ frame' = NoFrame
    /\ log' = <<>>
    /\ responses' = <<>>
    /\ sent' = <<>>
    /\ made' = NoMade
    /\ outcome' = Raised(exc)
    /\ conn_before' = http_connection
    /\ UNCHANGED http_connection

\* call() that starts the request before it serializes its parameters
CallMutSendsFirst(suburl, arg, hasIteritems) ==
    /\ pc = "idle"
    /\ LET params == IF arg.isContainer THEN arg.container
                     ELSE SetItem(NewContainer("DocumentParameters"),
                                  "content", arg.text).container
           t == BeginMakeRequest(http_connection,
                    Request("http_connection", "POST", Url(suburl),
                            UserAgent(JsonHeaders(CallHeaders)),
                            JsonPayload(params.params)))
           ser == Serialize(params)
       IN  /\ call' = Operation("call", suburl, arg, "retrying")
           /\ parameters' = ContainerArg(params)
           /\ useMultipart' = params.useMultipart
           /\ responses' = <<>>
           /\ sent' = <<t.request>>
           /\ conn_before' = http_connection
           /\ IF ser.exc # NoExc
              THEN Store([t EXCEPT !.made = MadeRaised(ser.exc), !.pc = "done"],
                         "call", suburl)
              ELSE Store(t, "call", suburl)
    /\ ConfigUnchanged
    /\ UNCHANGED pvars

\* call() that wraps a string as "contentUri", on any endpoint
CallMutWrapsAnywhere(suburl, arg, hasIteritems) ==
    /\ pc = "idle"
    /\ LET params == IF arg.isContainer THEN arg.container
                     ELSE SetItem(NewContainer("DocumentParameters"),
                                  "contentUri", arg.text).container
           ser == Serialize(params)
       IN  IF ser.exc # NoExc
           THEN FailBeforeNetwork(suburl, arg, ContainerArg(params),
                                  params.useMultipart, ser.exc)
           ELSE /\ call' = Operation("call", suburl, arg, "retrying")
                /\ parameters' = ContainerArg(params)
                /\ useMultipart' = params.useMultipart
                /\ responses' = <<>>
                /\ sent' = <<>>
                /\ conn_before' = http_connection
                /\ Store(BeginMakeRequest(http_connection,
                            Request("http_connection", "POST", Url(suburl),
                                    UserAgent(JsonHeaders(CallHeaders)),
                                    JsonPayload(ser.mapping))),
                         "call", suburl)
    /\ ConfigUnchanged
    /\ UNCHANGED pvars

\* EndpointCaller.call up to the first wait for the network.  hasIteritems
\* tells whether dict has iteritems (python 2) or not (python 3).
Call(suburl, arg, hasIteritems) ==
    /\ pc = "idle"
    /\ LET params == IF arg.isContainer THEN arg.container
                     ELSE SetItem(NewContainer("DocumentParameters"),
                                  "content", arg.text).container
           ser == Serialize(params)
           url == Url(suburl)
       IN  IF ~arg.isContainer
              /\ ~(suburl # "name-similarity" /\ suburl # "name-translation")
           THEN FailBeforeNetwork(suburl, arg, arg, FALSE,
                    RosetteException(SymCode("incompatible"),
                        Text("Text-only input only works for DocumentParameter endpoints"),
                        Text(suburl)))
           ELSE IF ser.exc # NoExc
           THEN FailBeforeNetwork(suburl, arg, ContainerArg(params),
                                  params.useMultipart, ser.exc)
           ELSE IF params.useMultipart /\ ~hasIteritems
           THEN FailBeforeNetwork(suburl, arg, ContainerArg(params), TRUE,
                                  PyError("AttributeError"))
           ELSE IF params.useMultipart /\ "content" \notin DOMAIN ser.mapping
           THEN FailBeforeNetwork(suburl, arg, ContainerArg(params), TRUE,
                                  PyError("KeyError"))
           ELSE IF params.useMultipart
           THEN /\ pc' = "multipart"
                /\ call' = Operation("call", suburl, arg, "multipart")
                /\ parameters' = ContainerArg(params)
                /\ useMultipart' = TRUE
                /\ frame' = NoFrame
                /\ log' = <<>>
                /\ responses' = <<>>
                /\ sent' =
                     <<Request("session", "POST", url, CallHeaders,
                          MultipartPayload(
                              [k \in DOMAIN ser.mapping \cap {"language"} |->
                                  ser.mapping[k]],
                              Basename(params.file_name),
                              ser.mapping["content"]))>>
                /\ made' = NoMade
                /\ outcome' = NoOutcome
                /\ conn_before' = http_connection
                /\ UNCHANGED http_connection
           ELSE /\ call' = Operation("call", suburl, arg, "retrying")
                /\ parameters' = ContainerArg(params)
                /\ useMultipart' = FALSE
                /\ responses' = <<>>
                /\ sent' = <<>>
                /\ conn_before' = http_connection
                /\ Store(BeginMakeRequest(http_connection,
                            Request("http_connection", "POST", url,
                                    UserAgent(JsonHeaders(CallHeaders)),
                                    JsonPayload(ser.mapping))),
                         "call", suburl)
    /\ ConfigUnchanged
    /\ UNCHANGED pvars

\* EndpointCaller.info / ping (API.info / API.ping bind them to suburl None)
\* up to the first wait for the network
InfoOrPing(op) ==
    /\ pc = "idle"
    /\ call' = Operation(op, NoneStr, NoArg, "retrying")
    /\ parameters' = NoArg
    /\ useMultipart' = FALSE
    /\ responses' = <<>>
    /\ sent' = <<>>
    /\ conn_before' = http_connection
    /\ Store(BeginMakeRequest(http_connection,
                Request("http_connection", "GET", Url(op),
                        UserAgent(InfoHeaders), NoPayload)),
             op, NoneStr)
    /\ ConfigUnchanged
    /\ UNCHANGED pvars

Info == InfoOrPing("info")

Ping == InfoOrPing("ping")

\* The transport answers attempt i of _make_request with a status and a body;
\* the rest of the loop body runs, and whatever follows it without another
\* answer: the return through _get_http / _post_http and __finish_result, or
\* the raise.
Respond(status, kind) ==
    /\ pc = "request"
    /\ responses' = Append(responses, status)
    /\ sent' = Append(sent, frame.request)
    /\ Store(OnResponse(Current, status, [n |-> Len(responses) + 1, kind |-> kind]),
             call.op, call.suburl)
    /\ UNCHANGED <<call, parameters, useMultipart, conn_before>>
    /\ ConfigUnchanged
    /\ UNCHANGED pvars

\* Attempt i of _make_request ends in a low-level connection failure.  Name
\* resolution fails only where a socket has to be connected.
ConnectionFailure(kind) ==
    /\ pc = "request"
    /\ kind = "gaierror" => http_connection # "open"
    /\ responses' = Append(responses, 0)
    /\ sent' = IF kind = "BadStatusLine" THEN Append(sent, frame.request) ELSE sent
    /\ Store(OnConnectionFailure(Current, kind), call.op, call.suburl)
    /\ UNCHANGED <<call, parameters, useMultipart, conn_before>>
    /\ ConfigUnchanged
    /\ UNCHANGED pvars

\* session.send returns the answer to a multipart upload: _my_loads, then
\* __finish_result
MultipartRespond(status, kind) ==
    /\ pc = "multipart"
    /\ pc' = "done"
    /\ responses' = Append(responses, status)
    /\ outcome' = FinishResult(
                      ReturnObject([n |-> Len(responses) + 1, kind |-> kind], status),
                      "operate", call.suburl)
    /\ UNCHANGED <<http_connection, call, parameters, useMultipart, frame, log,
                   sent, made, conn_before>>
    /\ ConfigUnchanged
    /\ UNCHANGED pvars

\* session.send raises (requests.exceptions.ConnectionError); call() lets it pass
MultipartFailure ==
    /\ pc = "multipart"
    /\ pc' = "done"
    /\ responses' = Append(responses, 0)
    /\ outcome' = Raised(PyError("requests.ConnectionError"))
    /\ UNCHANGED <<http_connection, call, parameters, useMultipart, frame, log,
                   sent, made, conn_before>>
    /\ ConfigUnchanged
    /\ UNCHANGED pvars

\* The caller has its result or its exception; the EndpointCaller and the
\* locals of the operation are gone, the API object stays.
Return ==
    /\ pc = "done"
    /\ pc' = "idle"
    /\ call' = NoCall
    /\ parameters' = NoArg
    /\ useMultipart' = FALSE
    /\ frame' = NoFrame
    /\ log' = <<>>
    /\ responses' = <<>>
    /\ sent' = <<>>
    /\ made' = NoMade
    /\ outcome' = NoOutcome
    /\ conn_before' = http_connection
    /\ UNCHANGED http_connection
    /\ ConfigUnchanged
    /\ UNCHANGED pvars

Init ==
    /\ \E key \in UserKeys, r \in RetriesArgs, reuse \in BOOLEAN :
          Constructed(key, r, reuse)
    /\ container = NewContainer("DocumentParameters")
    /\ p_last = LastOp("new", Result(NoExc, container, None, EmptyMapping))
    /\ content_origin = NoOrigin

Next ==
    \/ \E in \in CallInputs, hasIteritems \in BOOLEAN :
          Call(in[1], in[2], hasIteritems)
    \/ Info
    \/ Ping
    \/ \E status \in Statuses, kind \in BodyKinds : Respond(status, kind)
    \/ \E kind \in ConnectionFailures : ConnectionFailure(kind)
    \/ \E status \in Statuses, kind \in BodyKinds : MultipartRespond(status, kind)
    \/ MultipartFailure
    \/ Return

Spec == Init /\ [][Next]_vars

(* ------------------- SpecParams: the containers in use ------------------ *)

\* The containers are exercised beside a client built with the constructor's
\* defaults, which stays idle.
ParamsInit ==
    /\ Constructed(NoneStr, 5, TRUE)
    /\ \E cls \in Classes :
        /\ container = NewContainer(cls)
        /\ p_last = LastOp("new", Result(NoExc, NewContainer(cls), None, EmptyMapping))
    /\ content_origin = NoOrigin

PNew(cls) ==
    /\ container' = NewContainer(cls)
    /\ p_last' = LastOp("new", Result(NoExc, NewContainer(cls), None, EmptyMapping))
    /\ content_origin' = NoOrigin
    /\ UNCHANGED cvars

PSet(key, val) ==
    /\ LET res == SetItem(container, key, val) IN
       /\ container' = res.container
       /\ p_last' = LastOp("set", res)
       /\ content_origin' = IF key = "content" /\ res.exc = NoExc
                            THEN Origin("assigned", NoFile)
                            ELSE content_origin
    /\ UNCHANGED cvars

PGet(key) ==
    /\ LET res == GetItem(container, key) IN
       /\ container' = res.container
       /\ p_last' = LastOp("get", res)
    /\ UNCHANGED content_origin
    /\ UNCHANGED cvars

PSerialize ==
    /\ LET res == Serialize(container) IN
       /\ container' = res.container
       /\ p_last' = LastOp("serialize", res)
    /\ UNCHANGED content_origin
    /\ UNCHANGED cvars

PLoadString(s) ==
    /\ container.cls \in DocumentClasses
    /\ LET res == LoadDocumentString(container, s) IN
       /\ container' = res.container
       /\ p_last' = LastOp("load_document_string", res)
    /\ content_origin' = Origin("string", NoFile)
    /\ UNCHANGED cvars

PLoadFile(path, readable) ==
    /\ container.cls \in DocumentClasses
    /\ LET res == LoadDocumentFile(container, path, readable) IN
       /\ container' = res.container
       /\ p_last' = LastOp("load_document_file", res)
    /\ content_origin' = IF readable THEN Origin("file", path) ELSE content_origin
    /\ UNCHANGED cvars

ParamsNext ==
    \/ \E cls \in Classes : PNew(cls)
    \/ \E key \in DOMAIN container.params \cup UnknownKeys,
          val \in Vals \cup {None} : PSet(key, val)
    \/ \E key \in DOMAIN container.params \cup UnknownKeys : PGet(key)
    \/ PSerialize
    \/ \E s \in Vals : PLoadString(s)
    \/ \E path \in Files, readable \in BOOLEAN : PLoadFile(path, readable)

SpecParams == ParamsInit /\ [][ParamsNext]_vars

(* ----------------------- claims on the containers --------------------- *)

IsRosette(exc, sym) == exc.type = "RosetteException" /\ exc.status = SymCode(sym)

SetKeys(c) == {k \in DOMAIN c.params : c.params[k] # None}

\* C8: serialize() on a document container (DocumentParameters or
\* RelationshipsParameters), whatever keys are set: it raises badArgument when
\* "content" and "contentUri" are both set and when neither is; when exactly
\* one is set it raises nothing and returns a mapping whose keys are exactly
\* the keys holding a value, each with that value.
C8_DocumentSerialize ==
    (p_last.op = "serialize" /\ container.cls \in DocumentClasses) =>
        LET hasContent == container.params["content"] # None
            hasUri == container.params["contentUri"] # None
        IN  IF hasContent = hasUri
            THEN /\ IsRosette(p_last.exc, "badArgument")
                 /\ p_last.mapping = EmptyMapping
            ELSE /\ p_last.exc = NoExc
                 /\ DOMAIN p_last.mapping = SetKeys(container)
                 /\ \A k \in SetKeys(container) :
                        p_last.mapping[k] = container.params[k]

\* C8 witness: a document container with content and language set, the rest
\* unset, has been serialized without error.
C8_Witness ==
    /\ p_last.op = "serialize"
    /\ container.cls = "DocumentParameters"
    /\ p_last.exc = NoExc
    /\ SetKeys(container) = {"content", "language"}
    /\ DOMAIN p_last.mapping = {"content", "language"}

\* C9: serialize() on a name-translation container raises missingParameter
\* unless "name" and "targetLanguage" are both set, and on a name-similarity
\* container unless "name1" and "name2" are both set; with the required keys
\* set it raises nothing, whichever optional keys are set.
C9_NameSerialize ==
    /\ (p_last.op = "serialize" /\ container.cls = "NameTranslationParameters") =>
          IF {"name", "targetLanguage"} \subseteq SetKeys(container)
          THEN p_last.exc = NoExc /\ DOMAIN p_last.mapping = SetKeys(container)
          ELSE IsRosette(p_last.exc, "missingParameter")
    /\ (p_last.op = "serialize" /\ container.cls = "NameSimilarityParameters") =>
          IF {"name1", "name2"} \subseteq SetKeys(container)
          THEN p_last.exc = NoExc /\ DOMAIN p_last.mapping = SetKeys(container)
          ELSE IsRosette(p_last.exc, "missingParameter")

\* C9 witness: a name-translation container with "name" set and
\* "targetLanguage" unset has been refused by serialize().
C9_Witness ==
    /\ p_last.op = "serialize"
    /\ container.cls = "NameTranslationParameters"
    /\ container.params["name"] # None
    /\ container.params["targetLanguage"] = None
    /\ IsRosette(p_last.exc, "missingParameter")

\* C10: in every state a container reaches, its keys are the repertoire of its
\* class; setting a recognized key K to v raises nothing, a read of K then
\* returns v, and no other key changes; setting or reading a key outside the
\* repertoire raises badKey and leaves the container as it was.
C10_SetThenGet ==
    /\ DOMAIN container.params = Repertoire(container.cls)
    /\ \A k \in Repertoire(container.cls), v \in Vals \cup {None} :
          LET set == SetItem(container, k, v)
              get == GetItem(set.container, k)
          IN  /\ set.exc = NoExc
              /\ get.exc = NoExc
              /\ get.value = v
              /\ get.container = set.container
              /\ DOMAIN set.container.params = DOMAIN container.params
              /\ \A o \in DOMAIN container.params \ {k} :
                    set.container.params[o] = container.params[o]
    /\ \A k \in UnknownKeys, v \in Vals \cup {None} :
          /\ IsRosette(SetItem(container, k, v).exc, "badKey")
          /\ SetItem(container, k, v).container = container
          /\ IsRosette(GetItem(container, k).exc, "badKey")
          /\ GetItem(container, k).container = container
    /\ p_last.op \in {"set", "get"} =>
          \/ p_last.exc = NoExc
          \/ IsRosette(p_last.exc, "badKey")
    /\ (p_last.op = "get" /\ p_last.exc = NoExc) =>
          \E k \in DOMAIN container.params : p_last.value = container.params[k]

\* C10 witness: a read has returned a value that was set, in a container that
\* has another key still unset.
C10_Witness ==
    /\ p_last.op = "get"
    /\ p_last.exc = NoExc
    /\ p_last.value # None
    /\ \E k \in DOMAIN container.params : container.params[k] = None

(* ------------------------ claims on the client ------------------------ *)

Count(seq, x) == Cardinality({j \in DOMAIN seq : seq[j] = x})

Sleeps == Count(log, "sleep")

AttemptsMade == Count(log, "request")

\* Every answer received so far was a 429.
OnlyThrottled == \A j \in DOMAIN responses : responses[j] = 429

LastResponse == IF responses = <<>> THEN -1 ELSE responses[Len(responses)]

\* The URL the operation in progress addresses
OperationUrl == Url(IF call.op = "call" THEN call.suburl ELSE call.op)

\* C1: a retrying request (_make_request under _get_http or _post_http) whose
\* first k answers are 429, k <= retries, is still being retried after them,
\* having slept k times; when the next answer is 200, _make_request returns
\* status 200 with the body of that answer, exactly k sleeps having been
\* performed, and a body that parses gives the caller its parsed object.
C1_RetriesThenSuccess ==
    call.path = "retrying" =>
        LET n == Len(responses) IN
        /\ (OnlyThrottled /\ n <= num_retries) =>
              /\ pc = "request"
              /\ made.state = "none"
              /\ frame.i = n
              /\ Sleeps = n
              /\ AttemptsMade = n
        /\ LastResponse = 200 =>
              /\ pc = "done"
              /\ \A j \in 1..(n - 1) : responses[j] = 429
              /\ n - 1 <= num_retries
              /\ made = MadeReturned([n |-> n, kind |-> frame.rdata.kind], 200)
              /\ Sleeps = n - 1
              /\ AttemptsMade = n
              /\ IsJson(made.rdata) => outcome = Returned(MyLoads(made.rdata))

\* C1 witness: 429 twice, then 200, with retries = 2: returned after two sleeps.
C1_Witness ==
    /\ call.path = "retrying"
    /\ retries = 2
    /\ responses = <<429, 429, 200>>
    /\ made.state = "returned"
    /\ made.rdata.n = 3
    /\ Sleeps = 2
    /\ outcome.state = "returned"

\* C2: a retrying request never makes more than num_retries + 1 attempts,
\* where num_retries is the configured retries raised to 1 when below 1; when
\* every attempt is answered 429 it ends after exactly num_retries + 1
\* attempts, raising RosetteException with code 429 and the message recorded
\* from the last 429 answer, which is what the caller gets.
C2_AllThrottled ==
    /\ num_retries = (IF retries < 1 THEN 1 ELSE retries)
    /\ call.path = "retrying" =>
          /\ Len(responses) <= num_retries + 1
          /\ AttemptsMade <= num_retries + 1
          /\ (OnlyThrottled /\ pc = "done") =>
                /\ Len(responses) = num_retries + 1
                /\ AttemptsMade = num_retries + 1
                /\ Len(sent) = num_retries + 1
                /\ made.state = "raised"
                /\ made.exc =
                      RosetteException(
                          NumCode(429),
                          Format429([n |-> num_retries + 1,
                                     kind |-> frame.rdata.kind],
                                    num_retries),
                          OperationUrl)
                /\ outcome = Raised(made.exc)

\* C2 witness: retries = 0 is raised to 1; two 429 answers end the request
\* with code 429.
C2_Witness ==
    /\ retries = 0
    /\ call.path = "retrying"
    /\ pc = "done"
    /\ responses = <<429, 429>>
    /\ made.exc.status = NumCode(429)
    /\ made.exc.message.body.n = 2

\* C3 (as claimed): an attempt of a retrying request answered with a status
\* other than 200 and 429 ends the request at once with a RosetteException,
\* no further request being sent, whatever the body contains.
C3_OtherStatusRaisesRosette ==
    (call.path = "retrying" /\ LastResponse \notin {-1, 0, 200, 429}) =>
        /\ pc = "done"
        /\ Len(sent) = Len(responses)
        /\ made.state = "raised"
        /\ made.exc.type = "RosetteException"

\* C4: a BadStatusLine or gaierror on any attempt of a retrying request, the
\* first or one that follows 429 answers, ends the request at once with
\* RosetteException("ConnectionError", ..., url): the failed attempt is the
\* last event, no sleep and no further attempt follows it.
C4_ConnectionFailure ==
    (call.path = "retrying" /\ LastResponse = 0) =>
        /\ pc = "done"
        /\ made = MadeRaised(RosetteException(
                      SymCode("ConnectionError"),
                      Text("Unable to establish connection to the Rosette API server"),
                      OperationUrl))
        /\ outcome = Raised(made.exc)
        /\ log[Len(log)] = "request"
        /\ AttemptsMade = Len(responses)
        /\ Sleeps = Len(responses) - 1
        /\ \A j \in 1..(Len(responses) - 1) : responses[j] = 429

\* C4 witness: a connection failure on the attempt that follows a 429.
C4_Witness ==
    /\ call.path = "retrying"
    /\ responses = <<429, 0>>
    /\ pc = "done"
    /\ made.exc.status = SymCode("ConnectionError")

\* C5 (as claimed): with connection reuse disabled a retrying request starts
\* on a fresh connection, and when it has returned or raised, on any of its
\* ways out, the connection is not open.
C5_NoConnectionLeftOpen ==
    (~reuse_connection /\ call.path = "retrying") =>
        /\ log # <<>> /\ log[1] = "connect"
        /\ pc = "done" => http_connection # "open"

\* The argument of the call in progress fails validation, or is a plain
\* string on an endpoint that takes none.
Incompatible ==
    /\ ~call.arg.isContainer
    /\ call.suburl \in {"name-similarity", "name-translation"}

InvalidArgument ==
    /\ call.op = "call"
    /\ \/ Incompatible
       \/ call.arg.isContainer /\ Validate(call.arg.container) # NoExc

\* C6: a call whose container fails validation, or whose plain string meets a
\* name endpoint, has ended with badArgument, missingParameter or incompatible
\* without any request having been made: nothing was sent, no connection was
\* made, opened or closed, and http_connection is what it was before the call.
C6_ValidationBeforeNetwork ==
    InvalidArgument =>
        /\ pc = "done"
        /\ outcome.state = "raised"
        /\ \/ IsRosette(outcome.exc, "badArgument")
           \/ IsRosette(outcome.exc, "missingParameter")
           \/ IsRosette(outcome.exc, "incompatible")
        /\ call.arg.isContainer => outcome.exc = Validate(call.arg.container)
        /\ sent = <<>>
        /\ log = <<>>
        /\ responses = <<>>
        /\ made = NoMade
        /\ http_connection = conn_before

\* C6 witness: a document container with both content and contentUri is
\* refused while the client holds an open connection from an earlier call.
C6_Witness ==
    /\ InvalidArgument
    /\ IsRosette(outcome.exc, "badArgument")
    /\ call.arg.container.params["content"] # None
    /\ conn_before = "open"

\* C7: call() given a plain string: on a name endpoint it raises incompatible
\* with the endpoint as its context and sends nothing; on any other endpoint
\* the string is the "content" of a new DocumentParameters with every other key
\* unset and multipart off, and the call goes on to the retrying POST with
\* that container serialized.
C7_PlainString ==
    (call.op = "call" /\ ~call.arg.isContainer) =>
        IF call.suburl \in {"name-similarity", "name-translation"}
        THEN /\ pc = "done"
             /\ outcome =
                   Raised(RosetteException(
                       SymCode("incompatible"),
                       Text("Text-only input only works for DocumentParameter endpoints"),
                       Text(call.suburl)))
             /\ sent = <<>>
        ELSE /\ parameters.isContainer
             /\ parameters.container.cls = "DocumentParameters"
             /\ parameters.container.params =
                   [k \in {"content", "contentUri", "language", "genre"} |->
                       IF k = "content" THEN call.arg.text ELSE None]
             /\ ~parameters.container.useMultipart
             /\ ~useMultipart
             /\ call.path = "retrying"
             /\ frame.request.op = "POST"
             /\ frame.request.url = Url(call.suburl)
             /\ frame.request.payload =
                   JsonPayload([k \in {"content"} |-> call.arg.text])
             /\ ~IsRosette(outcome.exc, "incompatible")

\* C7 witness: a plain string on "entities" has been wrapped and its request
\* answered with 200.
C7_Witness ==
    /\ call.op = "call"
    /\ ~call.arg.isContainer
    /\ call.suburl = "entities"
    /\ parameters.container.params["content"] = call.arg.text
    /\ responses = <<200>>
    /\ outcome.state = "returned"

\* The requests of the operation in progress: those handed to the network and
\* the one the next attempt of _make_request will send.
Outbound ==
    {sent[j] : j \in DOMAIN sent}
        \cup (IF pc = "request" THEN {frame.request} ELSE {})

CarriesKey(request) ==
    /\ "X-RosetteAPI-Key" \in DOMAIN request.headers
    /\ request.headers["X-RosetteAPI-Key"] = user_key

\* C11: with a user key configured, every request of call() (JSON and
\* multipart), info() and ping(), every retry attempt included, has the header
\* X-RosetteAPI-Key with that key as its value; with no key configured (None),
\* no request has a header of that name.
C11_KeyHeader ==
    \A request \in Outbound :
        IF user_key # NoneStr
        THEN CarriesKey(request)
        ELSE "X-RosetteAPI-Key" \notin DOMAIN request.headers

\* C11 witness: with a key configured, a call has sent its request twice (the
\* second after a 429), each time with the key.
C11_Witness ==
    /\ user_key = "secret-key"
    /\ call.op = "call"
    /\ call.path = "retrying"
    /\ responses = <<429, 200>>
    /\ Len(sent) = 2
    /\ \A j \in DOMAIN sent : CarriesKey(sent[j])

\* A call() handed a container in multipart mode that passes validation
MultipartCall ==
    /\ call.op = "call"
    /\ call.arg.isContainer
    /\ call.arg.container.useMultipart
    /\ Validate(call.arg.container) = NoExc

\* C12 (as claimed): a call whose container is in multipart mode sends exactly
\* one request, as a multipart upload, whatever the retries and the answer; it
\* never sleeps and never sends again, and when the answer is 429 the call
\* ends with a RosetteException whose code is 429.
C12_MultipartSentOnce ==
    MultipartCall =>
        /\ Len(sent) = 1
        /\ sent[1].payload.kind = "multipart"
        /\ Sleeps = 0
        /\ Len(responses) <= 1
        /\ responses = <<429>> =>
              /\ pc = "done"
              /\ outcome.state = "raised"
              /\ outcome.exc.type = "RosetteException"
              /\ outcome.exc.status = NumCode(429)

\* The operation has ended and its last answer had a status other than 200.
EndedNot200 ==
    /\ pc = "done"
    /\ call.path \in {"retrying", "multipart"}
    /\ LastResponse \notin {-1, 0, 200}

\* The exception names the sub-path: in its message, as __finish_result
\* writes it, or by the URL of the request.
IdentifiesEndpoint(exc) ==
    \/ exc.message =
          Complaint(IF call.op = "call" THEN "operate" ELSE call.op, call.suburl)
    \/ exc.response_message = OperationUrl

\* The exception has the "message" of the last answer's body, or its "code"
\* when that body has no "message".
CarriesExtracted(exc) ==
    \/ \E text \in {exc.message, exc.response_message} :
          /\ text.fmt = "json[{0}]"
          /\ text.body.n = Len(responses)
          /\ text.arg = (IF HasMessage(text.body) THEN "message" ELSE "code")
    \/ /\ call.path = "retrying"
       /\ ~HasMessage(frame.rdata)
       /\ exc.status = JsonCode(frame.rdata)
       /\ frame.rdata.n = Len(responses)

\* C13 (as claimed): call(), info() or ping() whose last answer has a status
\* other than 200, on the retrying path or the multipart one, ends by raising
\* a RosetteException that names the endpoint sub-path and has the message
\* of that answer's body, or its code when the body has no message.
C13_Not200Structured ==
    EndedNot200 =>
        /\ outcome.state = "raised"
        /\ outcome.exc.type = "RosetteException"
        /\ IdentifiesEndpoint(outcome.exc)
        /\ CarriesExtracted(outcome.exc)

\* C14 (as claimed): whatever load_document_file, load_document_string and
\* key assignments a document container has gone through, it is in multipart
\* mode exactly when its current "content" was loaded from a file, and its
\* file name is then the path of that file.
C14_MultipartIffFromFile ==
    container.cls \in DocumentClasses =>
        /\ container.useMultipart <=> content_origin.how = "file"
        /\ content_origin.how = "file" =>
              container.file_name = content_origin.path

\* The number of sleeps among the first j events of the log
SleepsUpTo(j) == Count(SubSeq(log, 1, j), "sleep")

\* C15 (as claimed): in a retrying request each sleep comes right after an
\* attempt that was answered 429 and is followed by the close of the
\* connection and, once the request has ended, by another attempt; a request
\* that ends with every attempt answered 429 has slept num_retries times,
\* once between each two attempts and not after the last.
C15_SleepsAreInterRetry ==
    call.path = "retrying" =>
        /\ \A j \in DOMAIN log :
              log[j] = "sleep" =>
                 /\ j > 1
                 /\ log[j - 1] = "request"
                 /\ responses[SleepsUpTo(j)] = 429
                 /\ j < Len(log)
                 /\ log[j + 1] = "close"
                 /\ pc = "done" =>
                       \E h \in (j + 2)..Len(log) : log[h] = "request"
        /\ (pc = "done" /\ OnlyThrottled /\ responses # <<>>) =>
              Sleeps = num_retries

\* C16 (as claimed): when an attempt of a retrying request is answered with a
\* status other than 200 and 429 and a JSON body, the RosetteException raised
\* has that body's "code" as its code (the status of that answer when the body
\* has none) and that body's "message" as its message (None when it has
\* none); neither the code 429 nor the message recorded from an earlier 429
\* answer is in it.
C16_ErrorOfLastResponseOnly ==
    (/\ call.path = "retrying"
     /\ LastResponse \notin {-1, 0, 200, 429}
     /\ IsJson(frame.rdata)) =>
        /\ frame.rdata.n = Len(responses)
        /\ made.state = "raised"
        /\ made.exc.type = "RosetteException"
        /\ made.exc.status = (IF HasCode(frame.rdata) THEN JsonCode(frame.rdata)
                              ELSE NumCode(LastResponse))
        /\ made.exc.message = (IF HasMessage(frame.rdata)
                               THEN JsonMessage(frame.rdata)
                               ELSE NoneText)
        /\ made.exc.status # NumCode(429)
        /\ made.exc.message.fmt # Format429(NoBody, 0).fmt

====
